---- MODULE Spec2Model ----
(***************************************************************************)
(* Model of the opportunity-scan-and-trade engine of the Solana arbitrage  *)
(* bot: ArbitrageBot (server/arbitrage-bot.ts), the parts of SolanaService *)
(* it drives (solana-service.ts) and StorageService (storage-service.ts).  *)
(*                                                                         *)
(* Execution model.  Node runs one callback at a time.  A callback runs    *)
(* until it awaits a collaborator whose answer arrives in a later event    *)
(* loop turn (an HTTP quote, a database round trip, a timeout, a chain     *)
(* confirmation); awaiting an already settled promise only defers the      *)
(* continuation to the microtask queue, which drains before any timer,     *)
(* request or response is dispatched.  pc values in Runnable are such      *)
(* queued continuations: while one exists no other event is dispatched.    *)
(*                                                                         *)
(* Numbers.  Amounts are integers in the token's smallest unit.  A         *)
(* percentage is held in hundredths of a percent ('0.5' is 50).            *)
(***************************************************************************)
EXTENDS Integers, Sequences, FiniteSets, TLC

\* ---------------------------------------------------------------- bounds
MaxInFlight == 2       \* scan ticks awaiting a collaborator at one time
MaxTrading == 1        \* of these, ticks that are past the threshold test

\* ------------------------------------------------------- program constants
MAX_ERRORS == 5

NoConfig == 0
NoMessage == "undefined"
NoWallet == "undefined"

\* The configurations a caller may pass to start().  1 is the demo
\* configuration of server/index.ts (mock mode, threshold 0.5 %, no key);
\* 2 trades live with a loadable key; 3 carries a key that does not parse
\* and asks for twice the trade amount.
ConfigTable ==
  << [id |-> 1, tokenA |-> "SOL", tokenB |-> "USDC", profitThreshold |-> 50,
      maxTradeAmount |-> 1000, scanInterval |-> 15, mockMode |-> TRUE,
      privateKey |-> "null"],
     [id |-> 2, tokenA |-> "SOL", tokenB |-> "USDT", profitThreshold |-> 100,
      maxTradeAmount |-> 1000, scanInterval |-> 1, mockMode |-> FALSE,
      privateKey |-> "valid"],
     [id |-> 3, tokenA |-> "SOL", tokenB |-> "USDC", profitThreshold |-> 50,
      maxTradeAmount |-> 2000, scanInterval |-> 1, mockMode |-> FALSE,
      privateKey |-> "malformed"] >>

Configs == DOMAIN ConfigTable

\* What the quote provider may answer: no quote (getQuote returns null) or
\* an output amount.  Against an input of 1000 the tokenA outputs give a
\* round trip of -0.5 %, +0.5 % and +1.0 %.
QuoteFailed == 0
QuoteOutB == {2000}
\* a tokenB output that does not survive the conversion to a decimal amount
\* and back (see SecondQuoteAmount); answered in SpecQuotes only
QuoteOutBLossy == {2005}
QuoteOutA == {995, 1005, 1010}

Slots == 1..MaxInFlight

VARIABLES
  isRunning,        \* ArbitrageBot.isRunning
  scanInterval,     \* ArbitrageBot.scanInterval: TRUE when a handle is held
  timers,           \* number of armed setInterval timers
  timerPeriod,      \* period of the armed timer in ms (0: none)
  currentConfig,    \* ArbitrageBot.currentConfig (NoConfig = undefined)
  lastScanTime,     \* ArbitrageBot.lastScanTime (0, or the stamp of a scan)
  errorCount,       \* ArbitrageBot.errorCount
  wallet,           \* SolanaService.wallet
  lastRequestTime,  \* SolanaService.lastRequestTime (0, or a stamp)
  isDbConnected,    \* StorageService.isDbConnected
  dbInit,           \* is StorageService.initializeDatabase still running?
  db,               \* rows of the database tables trades, opportunities
  memoryStorage,    \* StorageService.memoryStorage (trades, opportunities)
  tick,             \* the scanForOpportunities invocations in flight
  finished,         \* what the tick that returned in this step decided, did
                    \* and left in the stores
  out,              \* events handed to WebSocketService.broadcast by the step
  ret,              \* value returned by the start()/stop() call of the step
  observed,         \* is quoteFailStreak being counted in this behaviour?
  quoteFailStreak   \* consecutive returned ticks whose quote request failed

engineVars == <<isRunning, scanInterval, timers, timerPeriod, currentConfig, lastScanTime,
                errorCount>>
storeVars == <<isDbConnected, dbInit, db, memoryStorage>>
vars == <<isRunning, scanInterval, timers, timerPeriod, currentConfig, lastScanTime,
          errorCount, wallet, lastRequestTime, isDbConnected, dbInit, db, memoryStorage, tick,
          finished, out, ret, observed, quoteFailStreak>>

Cfg(c) == ConfigTable[c]

\* ------------------------------------------------------------- data shapes
EmptyStore == [trades |-> <<>>, opportunities |-> <<>>]

NoTrade == [id |-> 0]
NoOpp == [id |-> 0]
NoResult == [success |-> FALSE, error |-> NoMessage]
NoRet == [op |-> "none", value |-> FALSE]
NoFinished ==
  [outcome |-> "none", amount |-> 0, q1 |-> 0, req2 |-> 0, q2 |-> 0,
   profit |-> 0, evaluated |-> FALSE, pct |-> 0, thr |-> 0, nOpp |-> 0,
   nTrade |-> 0, nExec |-> 0, nEvents |-> 0, trades |-> {},
   opportunities |-> {}, errorsBefore |-> 0, runningBefore |-> FALSE,
   xmock |-> FALSE, res |-> NoResult]

FreeTick ==
  [pc |-> "done", amount |-> 0, tokenA |-> "", tokenB |-> "", q1 |-> 0,
   req2 |-> 0, q2 |-> 0, profit |-> 0, xmock |-> FALSE, leg2 |-> FALSE,
   evaluated |-> FALSE, pct |-> 0, thr |-> 0, opp |-> NoOpp, trade |-> NoTrade, upd |-> NoTrade,
   res |-> NoResult, xamount |-> 0, xq1 |-> 0, leg1 |-> FALSE,
   nOpp |-> 0, nTrade |-> 0, nExec |-> 0, nEvents |-> 0]

\* pc values of a continuation queued behind an already settled await
Runnable == {"oppCreated", "tradeCreated", "tradeUpdated", "oppUpdated"}

\* pc values of a tick waiting inside executeArbitrage
ExecutorPcs == {"mockDelay", "xq1", "xq2", "lq1", "lswap1", "lexec1", "lq2",
                "lswap2", "lexec2"}

\* no continuation is queued: the event loop may dispatch the next event
Quiescent == \A t \in Slots : tick[t].pc \notin Runnable

InFlight(t) == tick[t].pc # "done"

\* a tick that has met the threshold and not yet returned
Trading(t) == tick[t].pc \notin {"done", "q1", "q2"}

\* the lowest free slot takes the next tick
FreeSlot(t) ==
  /\ tick[t].pc = "done"
  /\ \A u \in Slots : u < t => tick[u].pc # "done"

\* ------------------------------------------------------------------ events
BotStatusMessage(running, cfg, scan, msg) ==
  [type |-> "bot_status", isRunning |-> running, configId |-> cfg,
   lastScanTime |-> scan, errorMessage |-> msg]

OpportunityMessage(o) ==
  [type |-> "opportunity", id |-> o.id, profitPercentage |-> o.profitPercentage]

TradeMessage(tr) ==
  [type |-> "trade", id |-> tr.id, status |-> tr.status,
   txSignature |-> IF "txSignature" \in DOMAIN tr THEN tr.txSignature
                   ELSE NoMessage,
   errorMessage |-> IF "errorMessage" \in DOMAIN tr THEN tr.errorMessage
                    ELSE NoMessage]

\* ----------------------------------------------------------------- storage
\* The stores hold the records of the ticks in flight.  Every id is a fresh
\* nanoid, so no operation of the engine reads or writes a record once the
\* tick that created it has returned: at that step the tick's records leave
\* the modelled stores and are shown in `finished`, and the slot number can
\* stand for the id.
Put(tbl, id, rec) ==
  [k \in DOMAIN tbl \cup {id} |-> IF k = id THEN rec ELSE tbl[k]]

Without(tbl, id) == [k \in DOMAIN tbl \ {id} |-> tbl[k]]

\* { ...existing, ...updates }
Merge(existing, updates) ==
  [f \in DOMAIN existing \cup DOMAIN updates |->
     IF f \in DOMAIN updates THEN updates[f] ELSE existing[f]]

\* insert(...).values(rec) and memoryStorage.<table>.set(rec.id, rec)
Insert(store, table, rec) ==
  [store EXCEPT ![table] = Put(@, rec.id, rec)]

\* update(...).set(updates).where(id) and the in-memory "if (existing)" patch:
\* a record that is not in this store is not created by an update
Patch(store, table, id, updates) ==
  IF id \in DOMAIN store[table]
  THEN [store EXCEPT ![table] = Put(@, id, Merge(store[table][id], updates))]
  ELSE store

\* the patch executeTrade sends to updateOpportunity
OppPatch(s) == [wasExecuted |-> TRUE, executedTradeId |-> s.trade.id]

\* the write a storage operation performs on one store, for the tick whose
\* locals are s
Write(store, op, s) ==
  CASE op = "createOpportunity" -> Insert(store, "opportunities", s.opp)
    [] op = "createTrade" -> Insert(store, "trades", s.trade)
    [] op = "updateTrade" -> Patch(store, "trades", s.upd.id, s.upd)
    [] op = "updateOpportunity" ->
         Patch(store, "opportunities", s.opp.id, OppPatch(s))

Continuation(op) ==
  CASE op = "createOpportunity" -> "oppCreated"
    [] op = "createTrade" -> "tradeCreated"
    [] op = "updateTrade" -> "tradeUpdated"
    [] op = "updateOpportunity" -> "oppUpdated"

StorageOps == {"createOpportunity", "createTrade", "updateTrade",
               "updateOpportunity"}

\* The synchronous part of a storage call made by tick t, whose slot becomes
\* nt: with the database connected the request is sent and the tick waits for
\* it; otherwise the in-memory store is written at once and the caller's
\* continuation is queued.
StorageCall(t, op, nt) ==
  IF isDbConnected
  THEN /\ tick' = [tick EXCEPT ![t] = [nt EXCEPT !.pc = op]]
       /\ UNCHANGED storeVars
  ELSE /\ tick' = [tick EXCEPT ![t] = [nt EXCEPT !.pc = Continuation(op)]]
       /\ memoryStorage' = Write(memoryStorage, op, nt)
       /\ UNCHANGED <<isDbConnected, dbInit, db>>

\* the records with id t that the two stores hold
Held(table, t) ==
  {s[table][t] : s \in {x \in {db, memoryStorage} : t \in DOMAIN x[table]}}

\* what a returning tick decided and did, and the records it leaves behind
Returned(t, s, outcome, events) ==
  [outcome |-> outcome, amount |-> s.amount, q1 |-> s.q1, req2 |-> s.req2,
   q2 |-> s.q2, profit |-> s.profit, evaluated |-> s.evaluated, pct |-> s.pct,
   thr |-> s.thr, nOpp |-> s.nOpp, nTrade |-> s.nTrade, nExec |-> s.nExec,
   nEvents |-> s.nEvents + Len(events),
   trades |-> Held("trades", t), opportunities |-> Held("opportunities", t),
   errorsBefore |-> errorCount, runningBefore |-> isRunning,
   xmock |-> s.xmock, res |-> s.res]

\* tick t returns: its slot is free and its records leave the modelled stores
Return(t, s, outcome, events) ==
  /\ tick' = [tick EXCEPT ![t] = FreeTick]
  /\ finished' = Returned(t, s, outcome, events)
  /\ db' = [trades |-> Without(db.trades, t),
            opportunities |-> Without(db.opportunities, t)]
  /\ memoryStorage' =
       [trades |-> Without(memoryStorage.trades, t),
        opportunities |-> Without(memoryStorage.opportunities, t)]
  /\ out' = events
  /\ ret' = NoRet
  /\ UNCHANGED <<isDbConnected, dbInit, wallet, lastRequestTime, observed>>

\* a step of tick t that returns nothing to a caller and ends no tick
Silent ==
  /\ finished' = NoFinished
  /\ ret' = NoRet
  /\ UNCHANGED <<wallet, lastRequestTime, observed>>

\* ------------------------------------------------------------------- Init
InitEngine ==
  /\ isRunning = FALSE
  /\ scanInterval = FALSE
  /\ timers = 0
  /\ timerPeriod = 0
  /\ currentConfig = NoConfig
  /\ lastScanTime = 0
  /\ errorCount = 0
  /\ wallet = NoWallet
  /\ lastRequestTime = 0
  /\ isDbConnected = FALSE
  /\ dbInit = "pending"
  /\ db = EmptyStore
  /\ memoryStorage = EmptyStore
  /\ tick = [t \in Slots |-> FreeTick]
  /\ finished = NoFinished
  /\ out = <<>>
  /\ ret = NoRet
  /\ quoteFailStreak = 0

Init == InitEngine /\ observed = FALSE

\* the same start, with the streak of failed quote requests being counted
InitObserved == InitEngine /\ observed = TRUE

\* ------------------------------------------------ StorageService connection
\* initializeDatabase() is started by the constructor and not awaited: its
\* connection test answers at any later moment, or there is no DATABASE_URL.
InitializeDatabaseOk ==
  /\ Quiescent
  /\ dbInit = "pending"
  /\ dbInit' = "done"
  /\ isDbConnected' = TRUE
  /\ out' = <<>>
  /\ Silent
  /\ UNCHANGED <<engineVars, db, memoryStorage, tick, quoteFailStreak>>

InitializeDatabaseFailed ==
  /\ Quiescent
  /\ dbInit = "pending"
  /\ dbInit' = "done"
  /\ isDbConnected' = FALSE
  /\ out' = <<>>
  /\ Silent
  /\ UNCHANGED <<engineVars, db, memoryStorage, tick, quoteFailStreak>>

\* Date.now(): the time of a scan or of a request, as opposed to 0 for
\* "never"
Now == 1

\* ---------------------------------------------------------- SolanaService
MIN_REQUEST_INTERVAL == 1000

\* rateLimit(): wait until MIN_REQUEST_INTERVAL ms have passed since the
\* stamp, then stamp the time.  The delay is a wait and changes no state.
\* No method of SolanaService calls it: getQuote and getSwapTransaction go
\* to the provider at once, so no step of the model takes it.
rateLimit == lastRequestTime' = Now

\* setWallet: TRUE and the key is kept when it parses, FALSE otherwise
setWallet(privateKey) == privateKey = "valid"

\* simulateArbitrageOpportunity, once both quotes are in: the round trip's
\* profit and its percentage of the input (in hundredths of a percent)
profitOpportunity(amount, outAmount) == outAmount - amount

profitPercentage(amount, outAmount) ==
  (profitOpportunity(amount, outAmount) * 100 * 100) \div amount

\* The amount the second quote is requested for: parseInt(outAmount) / 1e9
\* passed to getQuote, which sends Math.floor(amount * 1e9).  RoundTripLoses
\* holds the amounts x of the quote domain for which the IEEE-754 double
\* (x / 1e9) * 1e9 lies just below x, so that the floor is x - 1.
RoundTripLoses == {1005, 2005}

SecondQuoteAmount(outAmount) ==
  IF outAmount \in RoundTripLoses THEN outAmount - 1 ELSE outAmount

\* ----------------------------------------------------------- ArbitrageBot
\* variants of the threshold test: any profit at all, and strictly above
ProfitableAtAll(pct, threshold) == pct > 0

AboveThreshold(pct, threshold) == pct > threshold

\* the test of scanForOpportunities that decides whether to trade
MeetsThreshold(pct, threshold) == pct >= threshold

\* variant of the stop test: one error too late
MoreThanMaxErrors(count) == count > MAX_ERRORS

\* the test of the catch branch that decides whether to stop
TooManyErrors(count) == count >= MAX_ERRORS

\* scanForOpportunities up to its first await: the time stamp and the first
\* quote request, with the token pair and amount of configuration c
BeginScan(t, c) ==
  /\ FreeSlot(t)
  /\ lastScanTime' = Now
  /\ tick' = [tick EXCEPT ![t] =
       [FreeTick EXCEPT !.pc = "q1",
                        !.amount = Cfg(c).maxTradeAmount,
                        !.tokenA = Cfg(c).tokenA,
                        !.tokenB = Cfg(c).tokenB]]

\* variant of the entry test: only the configuration is looked at
scanForOpportunitiesConfigOnly(t) ==
  IF currentConfig # NoConfig
  THEN BeginScan(t, currentConfig)
  ELSE UNCHANGED <<tick, lastScanTime>>

\* scanForOpportunities() as a callback: "if (!this.isRunning ||
\* !this.currentConfig) return", else the scan begins
scanForOpportunities(t) ==
  IF isRunning /\ currentConfig # NoConfig
  THEN BeginScan(t, currentConfig)
  ELSE UNCHANGED <<tick, lastScanTime>>

\* variants of stop(): the status is broadcast even when nothing was
\* running; the timer is left armed
StopEventsAlways ==
  << BotStatusMessage(FALSE, currentConfig, lastScanTime, NoMessage) >>

stopKeepsTimer ==
  IF ~isRunning
  THEN UNCHANGED <<isRunning, scanInterval, timers, timerPeriod>>
  ELSE /\ isRunning' = FALSE
       /\ UNCHANGED <<scanInterval, timers, timerPeriod>>

\* stop(): nothing when not running, else clear the flag and the timer and
\* broadcast the status
StopEvents ==
  IF isRunning
  THEN << BotStatusMessage(FALSE, currentConfig, lastScanTime, NoMessage) >>
  ELSE << >>

stop ==
  IF ~isRunning
  THEN UNCHANGED <<isRunning, scanInterval, timers, timerPeriod>>
  ELSE /\ isRunning' = FALSE
       /\ scanInterval' = FALSE
       /\ timers' = IF scanInterval THEN timers - 1 ELSE timers
       /\ timerPeriod' = IF scanInterval THEN 0 ELSE timerPeriod

Stop ==
  /\ Quiescent
  /\ stop
  /\ out' = StopEvents
  /\ ret' = [op |-> "stop", value |-> FALSE]
  /\ finished' = NoFinished
  /\ UNCHANGED <<currentConfig, lastScanTime, errorCount, wallet,
                 lastRequestTime, storeVars,
                 tick, observed, quoteFailStreak>>

\* variant of the refused start: the new configuration is taken all the same
StartReplacesConfig(c) ==
  /\ Quiescent
  /\ isRunning
  /\ currentConfig' = c
  /\ out' = <<>>
  /\ ret' = [op |-> "start", value |-> FALSE]
  /\ finished' = NoFinished
  /\ UNCHANGED <<isRunning, scanInterval, timers, timerPeriod, lastScanTime, errorCount,
                 wallet, lastRequestTime, storeVars, tick, observed,
                 quoteFailStreak>>

\* start(config) while running: refused before anything is touched
StartAlreadyRunning(c) ==
  /\ Quiescent
  /\ isRunning
  /\ out' = <<>>
  /\ ret' = [op |-> "start", value |-> FALSE]
  /\ finished' = NoFinished
  /\ UNCHANGED <<engineVars, wallet, lastRequestTime, storeVars, tick, observed,
                 quoteFailStreak>>

\* variant of the failed start: the failure is counted as an error
StartWalletFailedCounted(c) ==
  /\ Quiescent
  /\ ~isRunning
  /\ Cfg(c).privateKey # "null"
  /\ ~setWallet(Cfg(c).privateKey)
  /\ currentConfig' = c
  /\ errorCount' = 1
  /\ isRunning' = FALSE
  /\ out' = << BotStatusMessage(FALSE, c, lastScanTime, "Failed to load wallet") >>
  /\ ret' = [op |-> "start", value |-> FALSE]
  /\ finished' = NoFinished
  /\ UNCHANGED <<scanInterval, timers, timerPeriod, lastScanTime, wallet,
                 lastRequestTime,
                 storeVars, tick, observed, quoteFailStreak>>

\* variant of the failed start: the timer is armed before the key is loaded
\* and the catch branch leaves it armed
StartWalletFailedAfterArming(c) ==
  /\ Quiescent
  /\ ~isRunning
  /\ Cfg(c).privateKey # "null"
  /\ ~setWallet(Cfg(c).privateKey)
  /\ currentConfig' = c
  /\ errorCount' = 0
  /\ isRunning' = FALSE
  /\ scanInterval' = TRUE
  /\ timers' = timers + 1
  /\ timerPeriod' = Cfg(c).scanInterval * 1000
  /\ out' = << BotStatusMessage(FALSE, c, lastScanTime, "Failed to load wallet") >>
  /\ ret' = [op |-> "start", value |-> FALSE]
  /\ finished' = NoFinished
  /\ UNCHANGED <<lastScanTime, wallet, lastRequestTime, storeVars, tick,
                 observed, quoteFailStreak>>

\* start(config) whose key does not load: the catch branch
StartWalletFailed(c) ==
  /\ Quiescent
  /\ ~isRunning
  /\ Cfg(c).privateKey # "null"
  /\ ~setWallet(Cfg(c).privateKey)
  /\ currentConfig' = c
  /\ errorCount' = 0
  /\ isRunning' = FALSE
  /\ out' = << BotStatusMessage(FALSE, c, lastScanTime, "Failed to load wallet") >>
  /\ ret' = [op |-> "start", value |-> FALSE]
  /\ finished' = NoFinished
  /\ UNCHANGED <<scanInterval, timers, timerPeriod, lastScanTime, wallet,
                 lastRequestTime, storeVars, tick,
                 observed, quoteFailStreak>>

\* variant of the successful start: the timer is armed but no scan is run
\* before the first interval
StartOkTimerOnly(c, t) ==
  /\ Quiescent
  /\ ~isRunning
  /\ FreeSlot(t)
  /\ Cfg(c).privateKey # "null" => setWallet(Cfg(c).privateKey)
  /\ currentConfig' = c
  /\ errorCount' = 0
  /\ wallet' = IF Cfg(c).privateKey # "null" THEN Cfg(c).privateKey ELSE wallet
  /\ isRunning' = TRUE
  /\ scanInterval' = TRUE
  /\ timers' = timers + 1
  /\ timerPeriod' = Cfg(c).scanInterval * 1000
  /\ quoteFailStreak' = 0
  /\ out' = << BotStatusMessage(TRUE, c, lastScanTime, NoMessage) >>
  /\ ret' = [op |-> "start", value |-> TRUE]
  /\ finished' = NoFinished
  /\ UNCHANGED <<lastScanTime, tick, lastRequestTime, storeVars, observed>>

\* variant of the successful start: the error counter is not reset
StartOkKeepsCount(c, t) ==
  /\ Quiescent
  /\ ~isRunning
  /\ Cfg(c).privateKey # "null" => setWallet(Cfg(c).privateKey)
  /\ currentConfig' = c
  /\ errorCount' = errorCount
  /\ wallet' = IF Cfg(c).privateKey # "null" THEN Cfg(c).privateKey ELSE wallet
  /\ isRunning' = TRUE
  /\ BeginScan(t, c)
  /\ scanInterval' = TRUE
  /\ timers' = timers + 1
  /\ timerPeriod' = Cfg(c).scanInterval * 1000
  /\ quoteFailStreak' = 0
  /\ out' = << BotStatusMessage(TRUE, c, lastScanTime', NoMessage) >>
  /\ ret' = [op |-> "start", value |-> TRUE]
  /\ finished' = NoFinished
  /\ UNCHANGED <<lastRequestTime, storeVars, observed>>

\* start(config) that succeeds: startScanning() runs the first scan up to
\* its first await and arms the interval timer, then the status is broadcast
StartOk(c, t) ==
  /\ Quiescent
  /\ ~isRunning
  /\ Cfg(c).privateKey # "null" => setWallet(Cfg(c).privateKey)
  /\ currentConfig' = c
  /\ errorCount' = 0
  /\ wallet' = IF Cfg(c).privateKey # "null" THEN Cfg(c).privateKey ELSE wallet
  /\ isRunning' = TRUE
  /\ BeginScan(t, c)
  /\ scanInterval' = TRUE
  /\ timers' = timers + 1
  /\ timerPeriod' = Cfg(c).scanInterval * 1000
  /\ quoteFailStreak' = 0
  /\ out' = << BotStatusMessage(TRUE, c, lastScanTime', NoMessage) >>
  /\ ret' = [op |-> "start", value |-> TRUE]
  /\ finished' = NoFinished
  /\ UNCHANGED <<lastRequestTime, storeVars, observed>>

Start(c) ==
  \/ StartAlreadyRunning(c)
  \/ StartWalletFailed(c)
  \/ \E t \in Slots : StartOk(c, t)

\* the setInterval callback: one more scanForOpportunities, whatever the
\* earlier ones are doing
TimerFire(t) ==
  /\ Quiescent
  /\ timers > 0
  /\ scanForOpportunities(t)
  /\ out' = <<>>
  /\ Silent
  /\ UNCHANGED <<isRunning, scanInterval, timers, timerPeriod, currentConfig, errorCount,
                 storeVars, quoteFailStreak>>

\* The callback run with no timer armed.  stop() clears the interval before
\* it returns, so the armed timer never delivers this; SpecGuard adds the call
\* to put the entry test of scanForOpportunities before an Idle engine.
ScanCalled(t) ==
  /\ Quiescent
  /\ timers = 0
  /\ scanForOpportunities(t)
  /\ out' = <<>>
  /\ finished' = NoFinished
  /\ ret' = [op |-> "scan", value |-> FALSE]
  /\ UNCHANGED <<isRunning, scanInterval, timers, timerPeriod, currentConfig,
                 errorCount, wallet, lastRequestTime, storeVars, observed,
                 quoteFailStreak>>

\* variant of the no-data return: the missing data is counted as an error
NoDataCounted(t) ==
  /\ Return(t, tick[t], "nodata", <<>>)
  /\ quoteFailStreak' = IF observed /\ quoteFailStreak < MAX_ERRORS
                        THEN quoteFailStreak + 1 ELSE quoteFailStreak
  /\ errorCount' = IF errorCount < MAX_ERRORS THEN errorCount + 1
                   ELSE errorCount
  /\ UNCHANGED <<isRunning, scanInterval, timers, timerPeriod, currentConfig, lastScanTime>>

\* variant of the no-data return: the tick falls through to the counter reset
NoDataResets(t) ==
  /\ Return(t, tick[t], "nodata", <<>>)
  /\ quoteFailStreak' = IF observed /\ quoteFailStreak < MAX_ERRORS
                        THEN quoteFailStreak + 1 ELSE quoteFailStreak
  /\ errorCount' = 0
  /\ UNCHANGED <<isRunning, scanInterval, timers, timerPeriod, currentConfig, lastScanTime>>

\* "No arbitrage data available": the tick returns before the counter reset
NoData(t) ==
  /\ Return(t, tick[t], "nodata", <<>>)
  /\ quoteFailStreak' = IF observed /\ quoteFailStreak < MAX_ERRORS
                        THEN quoteFailStreak + 1 ELSE quoteFailStreak
  /\ UNCHANGED engineVars

\* variant of the completed tick: the error counter is not reset
ScanCompletedKeepsCount(t, s, outcome, events) ==
  /\ Return(t, s, outcome, events)
  /\ quoteFailStreak' = 0
  /\ UNCHANGED engineVars

\* the end of a tick that did not throw: "Reset error count on successful
\* scan"
ScanCompleted(t, s, outcome, events) ==
  /\ Return(t, s, outcome, events)
  /\ errorCount' = 0
  /\ quoteFailStreak' = 0
  /\ UNCHANGED <<isRunning, scanInterval, timers, timerPeriod, currentConfig, lastScanTime>>

\* the catch branch of scanForOpportunities: count the error and, at
\* MAX_ERRORS, stop() and broadcast 'Too many errors occurred'
ScanFailed(t) ==
  /\ Return(t, tick[t], "threw",
       IF TooManyErrors(errorCount + 1)
       THEN StopEvents \o << BotStatusMessage(FALSE, currentConfig,
                               lastScanTime, "Too many errors occurred") >>
       ELSE << >>)
  /\ errorCount' = errorCount + 1
  /\ IF TooManyErrors(errorCount + 1)
     THEN stop
     ELSE UNCHANGED <<isRunning, scanInterval, timers, timerPeriod>>
  /\ UNCHANGED <<currentConfig, lastScanTime, quoteFailStreak>>

\* variant of the first answer: the second quote is requested whether or not
\* the first request failed
ScanQuote1AsksAnyway(t, r) ==
  /\ Quiescent
  /\ tick[t].pc = "q1"
  /\ tick' = [tick EXCEPT ![t].pc = "q2", ![t].q1 = r,
                          ![t].req2 = SecondQuoteAmount(r)]
  /\ out' = <<>>
  /\ Silent
  /\ UNCHANGED <<engineVars, storeVars, quoteFailStreak>>

\* the answer to the first quote of the scan (tokenA -> tokenB)
ScanQuote1(t, r) ==
  /\ Quiescent
  /\ tick[t].pc = "q1"
  /\ IF r = QuoteFailed
     THEN NoData(t)
     ELSE /\ tick' = [tick EXCEPT ![t].pc = "q2", ![t].q1 = r,
                                  ![t].req2 = SecondQuoteAmount(r)]
          /\ out' = <<>>
          /\ Silent
          /\ UNCHANGED <<engineVars, storeVars, quoteFailStreak>>

\* recordOpportunity's record, built from currentConfig as it is now
OpportunityRecord(t, profit, pct) ==
  [id |-> t,
   tokenA |-> Cfg(currentConfig).tokenA,
   tokenB |-> Cfg(currentConfig).tokenB,
   profitOpportunity |-> profit,
   profitPercentage |-> pct,
   amountRequired |-> Cfg(currentConfig).maxTradeAmount,
   wasExecuted |-> FALSE]

\* the answer to the second quote (tokenB -> tokenA): no data, below the
\* threshold (counter reset, return), or record the opportunity and go on
ScanQuote2(t, r) ==
  /\ Quiescent
  /\ tick[t].pc = "q2"
  /\ IF r = QuoteFailed
     THEN NoData(t)
     ELSE LET profit == profitOpportunity(tick[t].amount, r)
              pct == profitPercentage(tick[t].amount, r)
              thr == Cfg(currentConfig).profitThreshold
              seen == [tick[t] EXCEPT !.evaluated = TRUE, !.q1 = 0,
                                      !.req2 = 0, !.q2 = r,
                                      !.profit = profit, !.pct = pct,
                                      !.thr = thr]
          IN IF MeetsThreshold(pct, thr)
             THEN /\ Cardinality({u \in Slots : Trading(u)}) < MaxTrading
                  /\ StorageCall(t, "createOpportunity",
                       [seen EXCEPT !.opp = OpportunityRecord(t, profit, pct),
                                    !.nOpp = @ + 1])
                  /\ out' = <<>>
                  /\ Silent
                  /\ UNCHANGED <<engineVars, quoteFailStreak>>
             ELSE ScanCompleted(t, seen, "below", <<>>)

\* ------------------------------------------------- database round trips
\* the database answers a request of tick t: the statement took effect
DbOk(t) ==
  /\ Quiescent
  /\ tick[t].pc \in StorageOps
  /\ db' = Write(db, tick[t].pc, tick[t])
  /\ tick' = [tick EXCEPT ![t].pc = Continuation(tick[t].pc)]
  /\ out' = <<>>
  /\ Silent
  /\ UNCHANGED <<engineVars, isDbConnected, dbInit, memoryStorage,
                 quoteFailStreak>>

\* variant of the failed database call: the error reaches the caller and
\* ends the tick in the catch branch of the scan
DbFailRaises(t) ==
  /\ Quiescent
  /\ tick[t].pc \in StorageOps
  /\ ScanFailed(t)

\* the database call throws: "Database error, falling back to memory"
DbFail(t) ==
  /\ Quiescent
  /\ tick[t].pc \in StorageOps
  /\ isDbConnected' = FALSE
  /\ memoryStorage' = Write(memoryStorage, tick[t].pc, tick[t])
  /\ tick' = [tick EXCEPT ![t].pc = Continuation(tick[t].pc)]
  /\ out' = <<>>
  /\ Silent
  /\ UNCHANGED <<engineVars, dbInit, db, quoteFailStreak>>

\* variant of the health check: a select that succeeds marks the database
\* connected again
HealthCheckReconnects(ok) ==
  /\ Quiescent
  /\ isDbConnected' = ok
  /\ ret' = [op |-> "healthCheck", value |-> ok]
  /\ out' = <<>>
  /\ finished' = NoFinished
  /\ UNCHANGED <<engineVars, dbInit, db, memoryStorage, tick, wallet,
                 lastRequestTime, observed, quoteFailStreak>>

\* healthCheck(): with the database connected, a select that succeeds
\* (ok) returns true and one that throws clears the flag and returns false;
\* without it, "Memory storage is always healthy"
HealthCheck(ok) ==
  /\ Quiescent
  /\ isDbConnected' = (isDbConnected /\ ok)
  /\ ret' = [op |-> "healthCheck", value |-> isDbConnected => ok]
  /\ out' = <<>>
  /\ finished' = NoFinished
  /\ UNCHANGED <<engineVars, dbInit, db, memoryStorage, tick, wallet,
                 lastRequestTime, observed, quoteFailStreak>>

\* ------------------------------------------------------------ executeTrade
\* the pending record executeTrade builds from currentConfig as it is now
TradeRecord(t) ==
  [id |-> t,
   configId |-> Cfg(currentConfig).id,
   tokenA |-> Cfg(currentConfig).tokenA,
   tokenB |-> Cfg(currentConfig).tokenB,
   amountIn |-> Cfg(currentConfig).maxTradeAmount,
   amountOut |-> 0,
   profit |-> 0,
   profitPercentage |-> 0,
   status |-> "pending",
   isMock |-> Cfg(currentConfig).mockMode]

\* updatedTrade: { ...tradeRecord, amountOut, profit, profitPercentage,
\* txSignature, status: 'completed' }
UpdatedTrade(tr, result) ==
  Merge(tr, [amountOut |-> tr.amountIn + result.profit,
             profit |-> result.profit,
             profitPercentage |-> (result.profit * 100 * 100) \div tr.amountIn,
             txSignature |-> result.txSignature,
             status |-> "completed"])

\* failedTrade and errorTrade: { ...tradeRecord, status: 'failed',
\* errorMessage }
FailedTrade(tr, message) ==
  Merge(tr, [status |-> "failed", errorMessage |-> message])

Success(sig, profit) ==
  [success |-> TRUE, txSignature |-> sig, profit |-> profit]

Failure(message) == [success |-> FALSE, error |-> message]

\* variant of the step after createOpportunity: the opportunity is not
\* broadcast before the trade is created
OpportunityCreatedUnannounced(t) ==
  /\ tick[t].pc = "oppCreated"
  /\ StorageCall(t, "createTrade",
       [tick[t] EXCEPT !.trade = TradeRecord(t), !.nTrade = @ + 1])
  /\ out' = <<>>
  /\ Silent
  /\ UNCHANGED <<engineVars, quoteFailStreak>>

\* after createOpportunity returned: broadcast the opportunity, enter
\* executeTrade, create the pending trade
OpportunityCreated(t) ==
  /\ tick[t].pc = "oppCreated"
  /\ StorageCall(t, "createTrade",
       [tick[t] EXCEPT !.trade = TradeRecord(t), !.nTrade = @ + 1,
                       !.nEvents = @ + 1])
  /\ out' = << OpportunityMessage(tick[t].opp) >>
  /\ Silent
  /\ UNCHANGED <<engineVars, quoteFailStreak>>

\* executeArbitrage returned result (or threw, and the catch branch built
\* the failure): the terminal record is sent to updateTrade
ResultArrives(t, s, result) ==
  StorageCall(t, "updateTrade",
    [s EXCEPT !.res = result,
              !.xq1 = 0,
              !.upd = IF result.success
                      THEN UpdatedTrade(s.trade, result)
                      ELSE FailedTrade(s.trade, result.error)])

\* variant of the executor call: the mode is ignored and a loaded wallet
\* trades live
TradeCreatedIgnoresMode(t) ==
  /\ tick[t].pc = "tradeCreated"
  /\ LET called == [tick[t] EXCEPT !.nExec = @ + 1, !.nEvents = @ + 1,
                      !.xamount = Cfg(currentConfig).maxTradeAmount,
                      !.xmock = Cfg(currentConfig).mockMode]
     IN IF wallet = NoWallet
        THEN ResultArrives(t, called, Failure("Wallet not initialized"))
        ELSE /\ tick' = [tick EXCEPT ![t] = [called EXCEPT !.pc = "lq1"]]
             /\ UNCHANGED storeVars
  /\ out' = << TradeMessage(tick[t].trade) >>
  /\ Silent
  /\ UNCHANGED <<engineVars, quoteFailStreak>>

\* after createTrade returned: broadcast the pending trade and call
\* executeArbitrage with the token pair, amount and mode of currentConfig
TradeCreated(t) ==
  /\ tick[t].pc = "tradeCreated"
  /\ LET called == [tick[t] EXCEPT !.nExec = @ + 1, !.nEvents = @ + 1,
                      !.xamount = Cfg(currentConfig).maxTradeAmount,
                      !.xmock = Cfg(currentConfig).mockMode]
     IN IF Cfg(currentConfig).mockMode
        THEN /\ tick' = [tick EXCEPT ![t] = [called EXCEPT !.pc = "mockDelay"]]
             /\ UNCHANGED storeVars
        ELSE IF wallet = NoWallet
        THEN ResultArrives(t, called, Failure("Wallet not initialized"))
        ELSE /\ tick' = [tick EXCEPT ![t] = [called EXCEPT !.pc = "lq1"]]
             /\ UNCHANGED storeVars
  /\ out' = << TradeMessage(tick[t].trade) >>
  /\ Silent
  /\ UNCHANGED <<engineVars, quoteFailStreak>>

\* after updateTrade returned: on success mark the opportunity executed, on
\* failure broadcast the failed trade and return to the scan
TradeUpdated(t) ==
  /\ tick[t].pc = "tradeUpdated"
  /\ IF tick[t].res.success
     THEN /\ StorageCall(t, "updateOpportunity", tick[t])
          /\ out' = <<>>
          /\ Silent
          /\ UNCHANGED <<engineVars, quoteFailStreak>>
     ELSE ScanCompleted(t, tick[t], "traded", << TradeMessage(tick[t].upd) >>)

\* after updateOpportunity returned: broadcast the completed trade, return
OpportunityUpdated(t) ==
  /\ tick[t].pc = "oppUpdated"
  /\ ScanCompleted(t, tick[t], "traded", << TradeMessage(tick[t].upd) >>)

\* -------------------------------------------- SolanaService.executeArbitrage
ExecutorStep(t, npc, changes) ==
  /\ tick' = [tick EXCEPT ![t] = [changes EXCEPT !.pc = npc]]
  /\ UNCHANGED storeVars

Frame ==
  /\ out' = <<>>
  /\ Silent
  /\ UNCHANGED <<engineVars, quoteFailStreak>>

\* mock mode: the 1000 ms delay is over, the fresh simulation asks for its
\* first quote
MockDelay(t) ==
  /\ Quiescent
  /\ tick[t].pc = "mockDelay"
  /\ ExecutorStep(t, "xq1", tick[t])
  /\ Frame

MockQuote1(t, r) ==
  /\ Quiescent
  /\ tick[t].pc = "xq1"
  /\ IF r = QuoteFailed
     THEN ResultArrives(t, tick[t], Failure("Failed to simulate trade"))
     ELSE ExecutorStep(t, "xq2", [tick[t] EXCEPT !.xq1 = r])
  /\ Frame

MockQuote2(t, r) ==
  /\ Quiescent
  /\ tick[t].pc = "xq2"
  /\ IF r = QuoteFailed
     THEN ResultArrives(t, tick[t], Failure("Failed to simulate trade"))
     ELSE ResultArrives(t, tick[t],
            Success("mock_tx_", profitOpportunity(tick[t].xamount, r)))
  /\ Frame

\* live mode, step 1: quote A -> B
LiveQuote1(t, r) ==
  /\ Quiescent
  /\ tick[t].pc = "lq1"
  /\ IF r = QuoteFailed
     THEN ResultArrives(t, tick[t], Failure("Failed to get quote A->B"))
     ELSE ExecutorStep(t, "lswap1", [tick[t] EXCEPT !.xq1 = r])
  /\ Frame

\* step 2: the swap transaction for A -> B, then sign, send and confirm it
LiveSwapTransaction1(t, ok) ==
  /\ Quiescent
  /\ tick[t].pc = "lswap1"
  /\ IF ok
     THEN ExecutorStep(t, "lexec1", tick[t])
     ELSE ResultArrives(t, tick[t],
            Failure("Failed to get swap transaction A->B"))
  /\ Frame

\* variant of the first submit: the second leg is begun whether or not the
\* first was confirmed
LiveExecuteSwap1Unchecked(t, ok) ==
  /\ Quiescent
  /\ tick[t].pc = "lexec1"
  /\ ExecutorStep(t, "lq2", [tick[t] EXCEPT !.leg1 = ok])
  /\ Frame

LiveExecuteSwap1(t, ok) ==
  /\ Quiescent
  /\ tick[t].pc = "lexec1"
  /\ IF ok
     THEN ExecutorStep(t, "lq2", [tick[t] EXCEPT !.leg1 = TRUE])
     ELSE ResultArrives(t, tick[t], Failure("Failed to execute swap A->B"))
  /\ Frame

\* variant of step 3: the failure is reported with the message of step 1
LiveQuote2WrongLeg(t, r) ==
  /\ Quiescent
  /\ tick[t].pc = "lq2"
  /\ IF r = QuoteFailed
     THEN ResultArrives(t, tick[t], Failure("Failed to get quote A->B"))
     ELSE ExecutorStep(t, "lswap2", [tick[t] EXCEPT !.xq1 = r])
  /\ Frame

\* step 3: quote B -> A for the output amount of the first quote
LiveQuote2(t, r) ==
  /\ Quiescent
  /\ tick[t].pc = "lq2"
  /\ IF r = QuoteFailed
     THEN ResultArrives(t, tick[t], Failure("Failed to get quote B->A"))
     ELSE ExecutorStep(t, "lswap2", [tick[t] EXCEPT !.xq1 = r])
  /\ Frame

\* step 4: the swap transaction for B -> A, then sign, send and confirm it
LiveSwapTransaction2(t, ok) ==
  /\ Quiescent
  /\ tick[t].pc = "lswap2"
  /\ IF ok
     THEN ExecutorStep(t, "lexec2", tick[t])
     ELSE ResultArrives(t, tick[t],
            Failure("Failed to get swap transaction B->A"))
  /\ Frame

LiveExecuteSwap2(t, ok) ==
  /\ Quiescent
  /\ tick[t].pc = "lexec2"
  /\ IF ok
     THEN ResultArrives(t, [tick[t] EXCEPT !.leg2 = TRUE],
            Success("signature",
                    profitOpportunity(tick[t].xamount, tick[t].xq1)))
     ELSE ResultArrives(t, tick[t], Failure("Failed to execute swap B->A"))
  /\ Frame

\* ------------------------------------------------------- rejected awaits
\* The catch branches of scanForOpportunities and executeTrade run when the
\* awaited evaluator or executor call rejects.  The SolanaService of this
\* repository catches every error of its own, so these two steps belong to
\* SpecFault only: the engine with a collaborator that can throw.
EvaluatorThrows(t) ==
  /\ Quiescent
  /\ tick[t].pc \in {"q1", "q2"}
  /\ ScanFailed(t)

ExecutorThrows(t) ==
  /\ Quiescent
  /\ tick[t].pc \in ExecutorPcs
  /\ ResultArrives(t, tick[t], Failure("executor threw"))
  /\ Frame

\* ------------------------------------------------------------ specification
Next ==
  \/ InitializeDatabaseOk
  \/ InitializeDatabaseFailed
  \/ \E c \in Configs : Start(c)
  \/ Stop
  \/ \E t \in Slots : TimerFire(t)
  \/ \E t \in Slots, r \in QuoteOutB \cup {QuoteFailed} : ScanQuote1(t, r)
  \/ \E t \in Slots, r \in QuoteOutA \cup {QuoteFailed} : ScanQuote2(t, r)
  \/ \E t \in Slots : DbOk(t)
  \/ \E t \in Slots : DbFail(t)
  \/ \E t \in Slots : OpportunityCreated(t)
  \/ \E t \in Slots : TradeCreated(t)
  \/ \E t \in Slots : TradeUpdated(t)
  \/ \E t \in Slots : OpportunityUpdated(t)
  \/ \E t \in Slots : MockDelay(t)
  \/ \E t \in Slots, r \in QuoteOutB \cup {QuoteFailed} : MockQuote1(t, r)
  \/ \E t \in Slots, r \in QuoteOutA \cup {QuoteFailed} : MockQuote2(t, r)
  \/ \E t \in Slots, r \in QuoteOutB \cup {QuoteFailed} : LiveQuote1(t, r)
  \/ \E t \in Slots, ok \in BOOLEAN : LiveSwapTransaction1(t, ok)
  \/ \E t \in Slots, ok \in BOOLEAN : LiveExecuteSwap1(t, ok)
  \/ \E t \in Slots, r \in QuoteOutA \cup {QuoteFailed} : LiveQuote2(t, r)
  \/ \E t \in Slots, ok \in BOOLEAN : LiveSwapTransaction2(t, ok)
  \/ \E t \in Slots, ok \in BOOLEAN : LiveExecuteSwap2(t, ok)

Spec == Init /\ [][Next]_vars

NextFault ==
  \/ Next
  \/ \E t \in Slots : EvaluatorThrows(t)
  \/ \E t \in Slots : ExecutorThrows(t)

SpecFault == Init /\ [][NextFault]_vars

SpecStreak == InitObserved /\ [][Next]_vars

\* the engine with a quote provider that also answers QuoteOutBLossy
NextQuotes ==
  \/ Next
  \/ \E t \in Slots, r \in QuoteOutBLossy : ScanQuote1(t, r)
  \/ \E t \in Slots, r \in QuoteOutBLossy : MockQuote1(t, r)
  \/ \E t \in Slots, r \in QuoteOutBLossy : LiveQuote1(t, r)

SpecQuotes == Init /\ [][NextQuotes]_vars

\* the engine whose scan callback is also run when no timer is armed
NextGuard ==
  \/ Next
  \/ \E t \in Slots : ScanCalled(t)

SpecGuard == Init /\ [][NextGuard]_vars

\* the service whose health check is called between the engine's steps
NextHealth ==
  \/ Next
  \/ \E ok \in BOOLEAN : HealthCheck(ok)

SpecHealth == Init /\ [][NextHealth]_vars

\* ------------------------------------------------------------- properties
Terminal == {"completed", "failed"}

\* a tick returned in the step that led to this state
TickReturned == finished.outcome # "none"

\* the bot_status events of the last step that carry an error message
ErrorStatusEvents ==
  {i \in 1..Len(out) : /\ out[i].type = "bot_status"
                       /\ out[i].errorMessage # NoMessage}

\* C1: at most one scan tick is in flight at any time.
AtMostOneTickInFlight == Cardinality({t \in Slots : InFlight(t)}) <= 1

\* C2: once the tick that created a trade record has returned, no such record
\* is left in status 'pending', whatever storage failures happened.
NoTradeLeftPending ==
  TickReturned => \A tr \in finished.trades : tr.status # "pending"

\* a persisted trade record changes only from 'pending' to a terminal status
TradeRewrittenOnlyFromPending ==
  \A id \in Slots :
    /\ ( /\ id \in DOMAIN db.trades
         /\ id \in DOMAIN db'.trades
         /\ db'.trades[id] # db.trades[id] )
       => /\ db.trades[id].status = "pending"
          /\ db'.trades[id].status \in Terminal
    /\ ( /\ id \in DOMAIN memoryStorage.trades
         /\ id \in DOMAIN memoryStorage'.trades
         /\ memoryStorage'.trades[id] # memoryStorage.trades[id] )
       => /\ memoryStorage.trades[id].status = "pending"
          /\ memoryStorage'.trades[id].status \in Terminal

\* C3: a persisted trade's status changes exactly once, from 'pending' to
\* 'completed' or 'failed', and the record is never written again.
TradeStatusWrittenExactlyOnce ==
  /\ [][TradeRewrittenOnlyFromPending]_vars
  /\ [](\A tr \in finished.trades : tr.status \in Terminal)

\* the trade an opportunity record points at is persisted as completed
LinkedTradeCompleted(o, trades) ==
  /\ "executedTradeId" \in DOMAIN o
  /\ \E tr \in trades : tr.id = o.executedTradeId /\ tr.status = "completed"

\* wasExecuted of a persisted opportunity only goes from false to true
ExecutedOnlySet ==
  \A id \in Slots :
    /\ ( /\ id \in DOMAIN db.opportunities
         /\ id \in DOMAIN db'.opportunities )
       => (db.opportunities[id].wasExecuted
             => db'.opportunities[id] = db.opportunities[id])
    /\ ( /\ id \in DOMAIN memoryStorage.opportunities
         /\ id \in DOMAIN memoryStorage'.opportunities )
       => (memoryStorage.opportunities[id].wasExecuted
             => memoryStorage'.opportunities[id]
                  = memoryStorage.opportunities[id])

\* C4: an opportunity has wasExecuted = true if and only if the trade linked
\* to it was updated to 'completed'; the flag is set at most once, together
\* with executedTradeId, and only after the trade was updated.
ExecutedIffTradeCompleted ==
  /\ [](\A t \in Slots : \A o \in Held("opportunities", t) :
          o.wasExecuted => LinkedTradeCompleted(o, Held("trades", t)))
  /\ [](\A o \in finished.opportunities :
          o.wasExecuted <=> LinkedTradeCompleted(o, finished.trades))
  /\ [][ExecutedOnlySet]_vars

\* C5 as stated: five consecutive ticks whose quote request failed, with no
\* completed tick in between, leave the engine Idle and broadcast a
\* bot_status event with an error message.
FiveQuoteFailuresStopEngine ==
  (finished.outcome = "nodata" /\ quoteFailStreak >= MAX_ERRORS)
    => ~isRunning /\ ErrorStatusEvents # {}

\* C5 as the code has it: a tick whose quote request failed returns "no data"
\* and leaves the running flag and the error counter as they were, the timer
\* armed if the engine runs, and broadcasts nothing, however many such ticks
\* came before it.
QuoteFailureIsNotCounted ==
  finished.outcome = "nodata"
    => /\ isRunning = finished.runningBefore
       /\ errorCount = finished.errorsBefore
       /\ scanInterval = isRunning
       /\ out = <<>>

\* five failed quote requests in a row, and the engine is still running
FiveQuoteFailuresStillRunning ==
  /\ finished.outcome = "nodata"
  /\ quoteFailStreak = MAX_ERRORS
  /\ finished.runningBefore
  /\ isRunning

EscapedExceptionCounts ==
  finished.outcome = "threw"
    => /\ errorCount = finished.errorsBefore + 1
       /\ IF errorCount >= MAX_ERRORS
          THEN /\ ~isRunning
               /\ ~scanInterval
               /\ timers = 0
               /\ Len(out) >= 1
               /\ out[Len(out)] =
                    BotStatusMessage(FALSE, currentConfig, lastScanTime,
                                     "Too many errors occurred")
          ELSE /\ isRunning = finished.runningBefore
               /\ out = <<>>

\* the fifth escaped exception stopped a running engine
FifthExceptionStopped ==
  /\ finished.outcome = "threw"
  /\ errorCount = MAX_ERRORS
  /\ finished.runningBefore
  /\ ~isRunning

\* C8: a tick whose evaluated profit percentage is below the threshold
\* creates no opportunity and no trade record, broadcasts no event and does
\* not call executeArbitrage.
BelowThresholdDoesNothing ==
  (TickReturned /\ finished.evaluated /\ finished.pct < finished.thr)
    => /\ finished.nOpp = 0
       /\ finished.nTrade = 0
       /\ finished.nExec = 0
       /\ finished.nEvents = 0
       /\ finished.opportunities = {}
       /\ finished.trades = {}
       /\ out = <<>>

\* a tick with a positive profit below the threshold returned
BelowThresholdReturned ==
  /\ TickReturned
  /\ finished.evaluated
  /\ finished.pct > 0
  /\ finished.pct < finished.thr

\* C9: a tick whose evaluated profit percentage is at least the threshold
\* (equality included) creates exactly one opportunity record, then exactly
\* one trade record, and calls executeArbitrage exactly once.
AtThresholdTradesOnce ==
  /\ (TickReturned /\ finished.evaluated /\ finished.pct >= finished.thr)
       => /\ finished.nOpp = 1
          /\ finished.nTrade = 1
          /\ finished.nExec = 1
          /\ Cardinality(finished.opportunities) = 1
          /\ Cardinality(finished.trades) = 1
  /\ \A t \in Slots :
       /\ tick[t].nOpp <= 1 /\ tick[t].nTrade <= 1 /\ tick[t].nExec <= 1
       /\ tick[t].nOpp = 1 => tick[t].pct >= tick[t].thr
       /\ tick[t].nTrade = 1
            => tick[t].nOpp = 1 /\ Cardinality(Held("opportunities", t)) = 1
       /\ tick[t].nExec = 1
            => tick[t].nTrade = 1 /\ Cardinality(Held("trades", t)) = 1

\* a tick whose profit percentage equals the threshold traded and returned
EqualToThresholdTraded ==
  /\ TickReturned
  /\ finished.evaluated
  /\ finished.pct = finished.thr
  /\ finished.nExec = 1

\* the step is a start(config) call made while the engine is running
StartCalledWhileRunning == isRunning /\ ret'.op = "start"

\* C10: start while Running returns false and changes nothing: the running
\* state, the configuration and the counters stay, no timer is added, no scan
\* is started and no event is broadcast.
StartWhileRunningRefused ==
  [][StartCalledWhileRunning
       => /\ ret'.value = FALSE
          /\ out' = <<>>
          /\ UNCHANGED <<engineVars, wallet, storeVars, tick>>]_vars

\* a start was refused while ticks of the run were in flight
StartRefusedWhileRunning ==
  /\ ret = [op |-> "start", value |-> FALSE]
  /\ isRunning
  /\ scanInterval
  /\ \E t \in Slots : InFlight(t)

\* the step is a stop() call
StopCalled == ret'.op = "stop"

\* C11: stop() while Idle is a no-op: the running flag, the configuration,
\* the error counter, the last-scan time and the timer are unchanged and no
\* bot_status event is broadcast.
StopWhileIdleIsNoOp ==
  [][(StopCalled /\ ~isRunning)
       => /\ UNCHANGED <<engineVars, wallet, storeVars, tick>>
          /\ out' = <<>>]_vars

\* stop() was called on an engine that had run before and was Idle
StoppedWhileIdle ==
  /\ ret.op = "stop"
  /\ out = <<>>
  /\ ~isRunning
  /\ currentConfig # NoConfig

\* the key of configuration c is present and does not load
KeyFails(c) ==
  /\ Cfg(c).privateKey # "null"
  /\ ~setWallet(Cfg(c).privateKey)

\* the step is a start(config) call on an Idle engine
StartCalledWhileIdle == ~isRunning /\ ret'.op = "start"

\* C12: start(config) on an Idle engine whose key fails to load returns
\* false, leaves the engine Idle, starts no scan, arms no timer, broadcasts
\* exactly one bot_status event with isRunning = false and an error message,
\* and does not increment the error counter.
StartWithBadKeyAborts ==
  [][(StartCalledWhileIdle /\ KeyFails(currentConfig'))
       => /\ ret'.value = FALSE
          /\ ~isRunning'
          /\ UNCHANGED <<tick, lastScanTime, scanInterval, timers,
                         timerPeriod, wallet>>
          /\ Len(out') = 1
          /\ out'[1].type = "bot_status"
          /\ out'[1].isRunning = FALSE
          /\ out'[1].errorMessage # NoMessage
          /\ errorCount' <= errorCount]_vars

\* a start was aborted because the key did not load
StartAbortedOnBadKey ==
  /\ ret = [op |-> "start", value |-> FALSE]
  /\ ~isRunning
  /\ KeyFails(currentConfig)
  /\ Len(out) = 1
  /\ out[1].errorMessage = "Failed to load wallet"

\* C13: a successful start(config) on an Idle engine resets the error
\* counter to 0, sets the engine Running, begins one scan tick at once, arms
\* a repeating timer with period config.scanInterval seconds, broadcasts one
\* bot_status event with isRunning = true and returns true.
StartRunsScanAndArmsTimer ==
  [][(StartCalledWhileIdle /\ ~KeyFails(currentConfig'))
       => /\ errorCount' = 0
          /\ isRunning'
          /\ \E t \in Slots :
               /\ tick[t].pc = "done"
               /\ tick'[t].pc = "q1"
               /\ tick'[t].amount = Cfg(currentConfig').maxTradeAmount
               /\ \A u \in Slots \ {t} : tick'[u] = tick[u]
          /\ lastScanTime' = Now
          /\ scanInterval'
          /\ timers' = timers + 1
          /\ timerPeriod' = Cfg(currentConfig').scanInterval * 1000
          /\ out' = << BotStatusMessage(TRUE, currentConfig', lastScanTime',
                                        NoMessage) >>
          /\ ret'.value = TRUE]_vars

\* a start succeeded: the engine runs with its first tick awaiting a quote
\* and one timer armed at the period of the configuration
StartedWithScanAndTimer ==
  /\ ret = [op |-> "start", value |-> TRUE]
  /\ isRunning
  /\ errorCount = 0
  /\ timers = 1
  /\ timerPeriod = Cfg(currentConfig).scanInterval * 1000
  /\ \E t \in Slots : tick[t].pc = "q1"

\* C14: stop() on a Running engine disarms the timer, sets the engine Idle
\* and broadcasts one bot_status event with isRunning = false; while Idle no
\* tick begins except in a successful start; the ticks in flight are left
\* as they are and go on.
StopDisarmsAndKeepsTicks ==
  [][/\ (StopCalled /\ isRunning)
          => /\ ~isRunning'
             /\ ~scanInterval'
             /\ timers' = 0
             /\ timerPeriod' = 0
             /\ out' = << BotStatusMessage(FALSE, currentConfig,
                                           lastScanTime, NoMessage) >>
             /\ UNCHANGED <<tick, storeVars, currentConfig, errorCount>>
     /\ (~isRunning /\ \E t \in Slots : tick[t].pc = "done"
                                         /\ tick'[t].pc # "done")
          => ret' = [op |-> "start", value |-> TRUE]]_vars

\* a tick that was in flight when the engine stopped went on to trade, wrote
\* its records and returned while the engine was Idle
TickFinishedAfterStop ==
  /\ finished.outcome = "traded"
  /\ ~finished.runningBefore
  /\ ~isRunning
  /\ finished.trades # {}

\* the executor was called in this tick
ExecutorCalled(s) == s.nExec = 1

\* C15: a trade executed with mockMode = true ends 'completed' with a
\* txSignature that begins with 'mock_tx_', unless the executor's
\* re-evaluation failed, which is the only way such a trade ends 'failed'.
MockTradeCompletesOrFailsToSimulate ==
  (TickReturned /\ ExecutorCalled(finished) /\ finished.xmock)
    => /\ finished.trades # {}
       /\ \A tr \in finished.trades :
            \/ /\ tr.status = "completed"
               /\ "txSignature" \in DOMAIN tr
               /\ tr.txSignature = "mock_tx_"
               /\ finished.res.success
            \/ /\ tr.status = "failed"
               /\ finished.res = Failure("Failed to simulate trade")

\* pc values of a tick waiting for a swap transaction or for a submitted
\* transaction
SwapPcs == {"lswap1", "lexec1", "lswap2", "lexec2"}

\* pc values of a tick waiting inside a live executeArbitrage
LivePcs == SwapPcs \cup {"lq1", "lq2"}

\* C16 as stated: while the current configuration has mockMode = true no
\* swap transaction is requested and no transaction is submitted.
NoSwapWhileConfigIsMock ==
  [][(currentConfig # NoConfig /\ Cfg(currentConfig).mockMode)
       => \A t \in Slots :
            tick'[t].pc \in SwapPcs => tick'[t].pc = tick[t].pc]_vars

\* C16 as the code has it: an executeArbitrage call made with mockMode =
\* true waits for its delay and its two quotes only; it never requests a
\* swap transaction or submits one.  (A live call begun under an earlier
\* configuration goes on with its swaps after the configuration changed.)
MockCallOnlyQuotes ==
  \A t \in Slots :
    (ExecutorCalled(tick[t]) /\ tick[t].xmock)
      => /\ tick[t].pc \notin LivePcs
         /\ tick[t].pc \in ExecutorPcs
              => tick[t].pc \in {"mockDelay", "xq1", "xq2"}
         /\ ~tick[t].leg1 /\ ~tick[t].leg2

\* a mock call is waiting for its second quote
MockCallQuoting ==
  \E t \in Slots :
    /\ ExecutorCalled(tick[t])
    /\ tick[t].xmock
    /\ tick[t].pc = "xq2"

\* C17: a live call of executeArbitrage made while no wallet is loaded
\* returns the failure 'Wallet not initialized' before any quote, swap or
\* submit request, and the trade is recorded 'failed' with that message.
LiveWithoutWalletFails ==
  /\ [][\A t \in Slots :
          ( /\ tick[t].pc = "tradeCreated"
            /\ tick'[t].pc # "tradeCreated"
            /\ ~Cfg(currentConfig).mockMode
            /\ wallet = NoWallet )
          => /\ tick'[t].res = Failure("Wallet not initialized")
             /\ tick'[t].pc \notin ExecutorPcs]_vars
  /\ []((TickReturned /\ finished.res = Failure("Wallet not initialized"))
          => /\ finished.trades # {}
             /\ \A tr \in finished.trades :
                  /\ tr.status = "failed"
                  /\ "errorMessage" \in DOMAIN tr
                  /\ tr.errorMessage = "Wallet not initialized")

\* the order of the live sub-steps: each is entered from the one before it
LiveStepOrder(a, b) ==
  /\ b = "lq1" => a \in {"tradeCreated", "lq1"}
  /\ b = "lswap1" => a \in {"lq1", "lswap1"}
  /\ b = "lexec1" => a \in {"lswap1", "lexec1"}
  /\ b = "lq2" => a \in {"lexec1", "lq2"}
  /\ b = "lswap2" => a \in {"lq2", "lswap2"}
  /\ b = "lexec2" => a \in {"lswap2", "lexec2"}

\* C18: in live mode the sub-steps run in the order quote 1, build 1,
\* submit 1, quote 2, build 2, submit 2; the second leg is begun only after
\* the first was confirmed, and executeArbitrage returns success if and only
\* if both legs were confirmed.
LiveLegsInOrder ==
  /\ [][\A t \in Slots : LiveStepOrder(tick[t].pc, tick'[t].pc)]_vars
  /\ [](\A t \in Slots :
          /\ tick[t].pc \in {"lq2", "lswap2", "lexec2"} => tick[t].leg1
          /\ tick[t].leg2 => tick[t].leg1
          /\ (ExecutorCalled(tick[t]) /\ ~tick[t].xmock)
               => (tick[t].res.success <=> (tick[t].leg1 /\ tick[t].leg2)))

\* a live call returned success after both legs were confirmed
BothLegsConfirmed ==
  \E t \in Slots :
    /\ ExecutorCalled(tick[t])
    /\ ~tick[t].xmock
    /\ tick[t].leg1 /\ tick[t].leg2
    /\ tick[t].res.success
    /\ tick[t].res.txSignature = "signature"

\* what the evaluator returned for the tick whose locals are s
EvaluatedAsQuoted(s) ==
  s.evaluated
    => /\ s.profit = s.q2 - s.amount
       /\ s.pct = (s.profit * 100 * 100) \div s.amount

\* C19: for successful quotes Q1 and Q2 the evaluator returns
\* profitOpportunity = Q2.outAmount - inputAmount and profitPercentage =
\* profitOpportunity / inputAmount * 100, and the amount requested in the
\* second quote equals Q1's output amount.
EvaluatorComputesRoundTrip ==
  /\ \A t \in Slots :
       /\ tick[t].pc = "q2" => tick[t].req2 = tick[t].q1
       /\ EvaluatedAsQuoted(tick[t])
  /\ EvaluatedAsQuoted(finished)

\* every persisted record of a table, and those of the tick that returned
Records(table) ==
  {db[table][k] : k \in DOMAIN db[table]}
    \cup {memoryStorage[table][k] : k \in DOMAIN memoryStorage[table]}
    \cup finished[table]

\* C20: every trade record satisfies profitPercentage = profit / amountIn *
\* 100 and every opportunity record satisfies profitPercentage =
\* profitOpportunity / amountRequired * 100, from the numbers in the record.
PercentagesMatchRecords ==
  /\ \A tr \in Records("trades") :
       tr.profitPercentage = (tr.profit * 100 * 100) \div tr.amountIn
  /\ \A o \in Records("opportunities") :
       o.profitPercentage
         = (o.profitOpportunity * 100 * 100) \div o.amountRequired

\* C21: a tick whose trade ends 'failed' because executeArbitrage returned a
\* failure result does not add to the error counter: the failure is recorded
\* on the trade ('failed', with the error message) and the tick ends as a
\* completed one, with the counter reset.
FailedTradeIsNotCounted ==
  (TickReturned /\ ExecutorCalled(finished) /\ ~finished.res.success)
    => /\ finished.outcome = "traded"
       /\ errorCount = 0
       /\ finished.trades # {}
       /\ \A tr \in finished.trades :
            /\ tr.status = "failed"
            /\ "errorMessage" \in DOMAIN tr
            /\ tr.errorMessage = finished.res.error

\* C22: the current configuration is present if and only if the engine is
\* Running.
ConfigPresentIffRunning == (currentConfig # NoConfig) <=> isRunning

\* a storage request of tick t is answered in this step
StorageAnswered(t) ==
  /\ tick[t].pc \in StorageOps
  /\ tick'[t].pc # tick[t].pc

\* C23: createOpportunity, updateOpportunity, createTrade and updateTrade
\* never raise to the caller: when the database call fails the operation
\* marks the database disconnected and completes against the in-memory
\* store, and the caller goes on; the error counter grows only when the
\* evaluator throws, never because of a persistence failure.
StorageNeverRaises ==
  [][/\ \A t \in Slots :
          StorageAnswered(t)
            => /\ tick'[t].pc = Continuation(tick[t].pc)
               /\ finished' = NoFinished
               /\ out' = <<>>
               /\ UNCHANGED engineVars
               /\ \/ /\ db' = Write(db, tick[t].pc, tick[t])
                     /\ UNCHANGED <<memoryStorage, isDbConnected>>
                  \/ /\ ~isDbConnected'
                     /\ memoryStorage'
                          = Write(memoryStorage, tick[t].pc, tick[t])
                     /\ db' = db
     /\ errorCount' > errorCount
          => \E t \in Slots : /\ tick[t].pc \in {"q1", "q2"}
                              /\ tick'[t].pc = "done"
                              /\ finished'.outcome = "threw"]_vars

\* createTrade fell back to the in-memory store after the database had taken
\* the opportunity, and the tick went on with the error counter as it was
TradeCreatedInMemoryAfterDbError ==
  \E t \in Slots :
    /\ tick[t].pc = "tradeCreated"
    /\ t \in DOMAIN db.opportunities
    /\ t \in DOMAIN memoryStorage.trades
    /\ ~isDbConnected
    /\ errorCount > 0

\* pc values of a tick waiting for the provider's answer to a quote request
\* (getQuote) or to a swap transaction request (getSwapTransaction)
ProviderPcs == {"q1", "q2", "xq1", "xq2", "lq1", "lq2", "lswap1", "lswap2"}

\* tick t sends a request to the provider in this step
ProviderRequestIssued(t) ==
  /\ tick'[t].pc \in ProviderPcs
  /\ tick'[t].pc # tick[t].pc

\* C24: every request to the quote/swap provider passes through the rate
\* limiter first: the step that sends it stamps lastRequestTime (after
\* waiting until MIN_REQUEST_INTERVAL ms have passed since the stamp before),
\* so a request in flight always has its stamp.
ProviderRequestsRateLimited ==
  /\ [][(\E t \in Slots : ProviderRequestIssued(t)) => rateLimit]_vars
  /\ []((\E t \in Slots : tick[t].pc \in ProviderPcs)
          => lastRequestTime # 0)

\* C25: a tick in which the evaluator returned no data (a quote request
\* failed) leaves the error counter exactly as it was before the tick
\* returned, neither incremented nor reset, and creates no opportunity or
\* trade record.
NoDataTickLeavesCounter ==
  finished.outcome = "nodata"
    => /\ errorCount = finished.errorsBefore
       /\ ~finished.evaluated
       /\ finished.nOpp = 0
       /\ finished.nTrade = 0
       /\ finished.opportunities = {}
       /\ finished.trades = {}

\* a tick whose second quote request failed returned while errors were
\* counted, and the count is still there
NoDataKeptPositiveCounter ==
  /\ finished.outcome = "nodata"
  /\ finished.q1 # 0
  /\ finished.errorsBefore > 0
  /\ errorCount = finished.errorsBefore

\* the step is a run of the scan callback on an Idle engine
CallbackRunWhileIdle == ret'.op = "scan" /\ ~isRunning

\* C26: a timer tick that fires while the engine is Idle has no effect: the
\* last-scan time is not updated, no quote is requested, no record is
\* created, no event is broadcast and the error counter is unchanged.
TimerTickWhileIdleHasNoEffect ==
  [][CallbackRunWhileIdle
       => /\ UNCHANGED <<engineVars, wallet, lastRequestTime, storeVars, tick>>
          /\ out' = <<>>
          /\ finished' = NoFinished]_vars

\* the callback ran on an engine that had scanned, was stopped and still
\* holds its configuration, while a tick of the earlier run was in flight
CallbackRanOnStoppedEngine ==
  /\ ret.op = "scan"
  /\ ~isRunning
  /\ currentConfig # NoConfig
  /\ lastScanTime = Now
  /\ \E t \in Slots : InFlight(t)
  /\ \E t \in Slots : tick[t].pc = "done"

\* the trade as executeTrade first persists it
PendingRecord(tr) ==
  /\ tr.status = "pending"
  /\ tr.amountOut = 0
  /\ tr.profit = 0

\* C27: within one trading tick the opportunity is persisted, then the
\* opportunity event is broadcast, then the trade is persisted 'pending'
\* with amountOut = 0 and profit = 0, then the pending trade event is
\* broadcast, and only then is executeArbitrage invoked.
TradingStepsInOrder ==
  /\ [](\A t \in Slots :
          /\ tick[t].pc \in {"q1", "q2", "createOpportunity"}
               => /\ Held("opportunities", t) = {}
                  /\ tick[t].nEvents = 0
          /\ tick[t].pc \in {"oppCreated", "createTrade"}
               => /\ Held("opportunities", t) = {tick[t].opp}
                  /\ Held("trades", t) = {}
                  /\ tick[t].nExec = 0
          /\ tick[t].pc = "oppCreated"
               => tick[t].nEvents = 0 /\ tick[t].nTrade = 0
          /\ tick[t].pc = "createTrade" => tick[t].nEvents = 1
          /\ tick[t].pc = "tradeCreated"
               => /\ Held("trades", t) = {tick[t].trade}
                  /\ PendingRecord(tick[t].trade)
                  /\ tick[t].nEvents = 1
                  /\ tick[t].nExec = 0
          /\ ExecutorCalled(tick[t])
               => /\ tick[t].nOpp = 1
                  /\ tick[t].nTrade = 1
                  /\ tick[t].nEvents >= 2)
  /\ [][\A t \in Slots :
          /\ (tick[t].pc = "oppCreated" /\ tick'[t].pc # "oppCreated")
               => /\ out' = << OpportunityMessage(tick[t].opp) >>
                  /\ tick'[t].pc \in {"createTrade", "tradeCreated"}
          /\ (tick[t].pc = "tradeCreated" /\ tick'[t].pc # "tradeCreated")
               => /\ out' = << TradeMessage(tick[t].trade) >>
                  /\ out'[1].status = "pending"
                  /\ ExecutorCalled(tick'[t])
          /\ (ExecutorCalled(tick'[t]) /\ ~ExecutorCalled(tick[t]))
               => tick[t].pc = "tradeCreated"]_vars

\* a tick waits inside executeArbitrage with its opportunity and its pending
\* trade persisted and both events broadcast
ExecutorRunsAfterRecordsAndEvents ==
  \E t \in Slots :
    /\ tick[t].pc \in ExecutorPcs
    /\ tick[t].nEvents = 2
    /\ Held("opportunities", t) = {tick[t].opp}
    /\ \E tr \in Held("trades", t) : PendingRecord(tr)

\* the error executeArbitrage returns when the live sub-step a tick waits
\* for at pc p fails
StepError(p) ==
  CASE p = "lq1" -> "Failed to get quote A->B"
    [] p = "lswap1" -> "Failed to get swap transaction A->B"
    [] p = "lexec1" -> "Failed to execute swap A->B"
    [] p = "lq2" -> "Failed to get quote B->A"
    [] p = "lswap2" -> "Failed to get swap transaction B->A"
    [] p = "lexec2" -> "Failed to execute swap B->A"

\* the live sub-step that follows the one awaited at pc p
StepAfter(p) ==
  CASE p = "lq1" -> "lswap1"
    [] p = "lswap1" -> "lexec1"
    [] p = "lexec1" -> "lq2"
    [] p = "lq2" -> "lswap2"
    [] p = "lswap2" -> "lexec2"
    [] OTHER -> "none"

\* C28: in live mode, when one of the six sub-steps fails executeArbitrage
\* returns at once: no later sub-step is invoked, nothing more is submitted,
\* a confirmed first leg stays as it is, and the error message names the
\* failing step and leg, a different message for each of the six.
LiveFailureAbortsAtOnce ==
  /\ [][\A t \in Slots :
          (tick[t].pc \in LivePcs /\ tick'[t].pc # tick[t].pc)
            => \/ /\ tick'[t].pc = StepAfter(tick[t].pc)
                  /\ tick'[t].res = NoResult
               \/ /\ tick[t].pc = "lexec2"
                  /\ tick'[t].res.success
                  /\ tick'[t].pc \notin ExecutorPcs
               \/ /\ tick'[t].res = Failure(StepError(tick[t].pc))
                  /\ tick'[t].pc \notin ExecutorPcs
                  /\ tick'[t].leg1 = tick[t].leg1
                  /\ tick'[t].leg2 = tick[t].leg2]_vars
  /\ [](\A t \in Slots :
          tick[t].res # NoResult => tick[t].pc \notin ExecutorPcs)
  /\ [](\A p, q \in LivePcs : StepError(p) = StepError(q) => p = q)

\* a live call failed at the swap transaction of its second leg, after the
\* first leg was confirmed, and the tick is past executeArbitrage
SecondLegFailedAfterFirstConfirmed ==
  \E t \in Slots :
    /\ tick[t].leg1
    /\ ~tick[t].leg2
    /\ tick[t].res = Failure("Failed to get swap transaction B->A")
    /\ tick[t].pc \notin ExecutorPcs

\* the errors of the three sub-steps of the second leg
Leg2Errors == {StepError(p) : p \in {"lq2", "lswap2", "lexec2"}}

\* The error texts of the live branch are literals of the source; the id of
\* a transaction is known only when the chain has answered, so a text that
\* holds one is none of them.
HoldsTransactionId(message) == message \notin {StepError(p) : p \in LivePcs}

\* C29: when a live trade fails at a sub-step of the second leg after the
\* first leg was confirmed, the trade is recorded 'failed' and its error
\* message holds the transaction id of the confirmed first leg.
FirstLegIdInErrorMessage ==
  /\ \A t \in Slots :
       (tick[t].leg1 /\ tick[t].res # NoResult /\ ~tick[t].res.success)
         => /\ tick[t].res.error \in Leg2Errors
            /\ tick[t].upd.status = "failed"
            /\ HoldsTransactionId(tick[t].upd.errorMessage)
  /\ (TickReturned /\ ~finished.res.success
        /\ finished.res.error \in Leg2Errors)
       => /\ finished.trades # {}
          /\ \A tr \in finished.trades :
               /\ tr.status = "failed"
               /\ "errorMessage" \in DOMAIN tr
               /\ HoldsTransactionId(tr.errorMessage)

\* C30: a trade is recorded 'completed' whenever the executor reports
\* success, whatever the realised profit: the recorded profit is the one the
\* executor returned (in mock mode that of its fresh re-evaluation, not the
\* opportunity's), and the opportunity is marked wasExecuted, also when that
\* profit is below the threshold, zero or negative.
SuccessIsRecordedCompleted ==
  (TickReturned /\ ExecutorCalled(finished) /\ finished.res.success)
    => /\ finished.trades # {}
       /\ \A tr \in finished.trades :
            /\ tr.status = "completed"
            /\ tr.profit = finished.res.profit
       /\ finished.opportunities # {}
       /\ \A o \in finished.opportunities : o.wasExecuted

\* C31: simulateArbitrageOpportunity reports no data exactly when one of its
\* two quote requests failed, and does not request the second quote when the
\* first failed; an unprofitable round trip (profit <= 0) is returned as a
\* normal result with that profit, never as a failure or an exception.
EvaluatorFailsOnlyOnQuoteFailure ==
  /\ \A t \in Slots :
       /\ tick[t].pc = "q2" => tick[t].q1 # QuoteFailed
       /\ tick[t].pc = "xq2" => tick[t].xq1 # QuoteFailed
       /\ tick[t].evaluated
            => /\ tick[t].q2 # QuoteFailed
               /\ tick[t].profit = tick[t].q2 - tick[t].amount
  /\ TickReturned
       => /\ finished.outcome = "nodata" <=> ~finished.evaluated
          /\ finished.outcome = "nodata"
               => /\ finished.q2 = QuoteFailed
                  /\ finished.q1 = QuoteFailed => finished.req2 = 0
          /\ finished.evaluated
               => /\ finished.q2 # QuoteFailed
                  /\ finished.profit = finished.q2 - finished.amount
          /\ (finished.evaluated /\ finished.profit <= 0)
               => /\ finished.outcome = "below"
                  /\ errorCount = 0

\* a round trip that loses money was returned as a result and the tick ended
\* below the threshold
LosingRoundTripReturned ==
  /\ TickReturned
  /\ finished.evaluated
  /\ finished.profit < 0
  /\ finished.outcome = "below"

\* C32: between operations the repeating scan timer is armed if and only if
\* the engine is Running, and at most one timer is armed, across every
\* sequence of start, failed start, stop and automatic stop.
TimerArmedIffRunning ==
  /\ scanInterval <=> isRunning
  /\ timers = IF isRunning THEN 1 ELSE 0
  /\ timerPeriod # 0 <=> isRunning

\* the automatic stop disarmed the timer of a running engine while another
\* tick was in flight
AutomaticStopDisarmedTimer ==
  /\ finished.outcome = "threw"
  /\ finished.runningBefore
  /\ ~isRunning
  /\ timers = 0
  /\ ~scanInterval
  /\ \E t \in Slots : InFlight(t)

BeganUnder(t) ==
  CHOOSE c \in Configs : /\ Cfg(c).tokenA = tick[t].tokenA
                         /\ Cfg(c).tokenB = tick[t].tokenB
                         /\ Cfg(c).maxTradeAmount = tick[t].amount

\* C35: every opportunity and trade record created by a tick carries the
\* tokenA, tokenB, maxTradeAmount, configId and mockMode of the configuration
\* under which the tick began, also when stop() and start(otherConfig) were
\* called while the tick was awaiting.
RecordsCarryConfigOfTick ==
  \A t \in Slots :
    InFlight(t)
      => /\ \A o \in Held("opportunities", t) :
              /\ o.tokenA = Cfg(BeganUnder(t)).tokenA
              /\ o.tokenB = Cfg(BeganUnder(t)).tokenB
              /\ o.amountRequired = Cfg(BeganUnder(t)).maxTradeAmount
         /\ \A tr \in Held("trades", t) :
              /\ tr.tokenA = Cfg(BeganUnder(t)).tokenA
              /\ tr.tokenB = Cfg(BeganUnder(t)).tokenB
              /\ tr.amountIn = Cfg(BeganUnder(t)).maxTradeAmount
              /\ tr.configId = Cfg(BeganUnder(t)).id
              /\ tr.isMock = Cfg(BeganUnder(t)).mockMode

\* tick t is in flight and began in an earlier run than the one now running:
\* it quoted another token pair than that of the running configuration
StaleTick(t) ==
  /\ isRunning
  /\ InFlight(t)
  /\ tick[t].tokenB # Cfg(currentConfig).tokenB

WalletOf(c) ==
  IF setWallet(Cfg(c).privateKey) THEN Cfg(c).privateKey ELSE NoWallet

\* C37: the loaded wallet is that of the current configuration: after a run
\* that loaded a wallet, a start with a configuration that has no credentials,
\* or whose malformed credentials made the start fail, leaves no wallet
\* loaded, and a live trade signs only with the key of the current
\* configuration.
WalletIsOfCurrentConfig ==
  /\ [](currentConfig # NoConfig => wallet = WalletOf(currentConfig))
  /\ [][\A t \in Slots :
          (tick[t].pc = "tradeCreated" /\ tick'[t].pc = "lq1")
            => WalletOf(currentConfig) # NoWallet]_vars

\* the trade events of a tick: the pending one is broadcast by the step that
\* follows createTrade, one terminal one by the step in which the tick
\* returns, and none by any other step
TradeEventsPendingThenTerminal ==
  /\ [][\A t \in Slots : \A i \in 1..Len(out') :
          (out'[i].type = "trade" /\ out'[i].id = t)
            => /\ Len(out') = 1
               /\ IF out'[i].status = "pending"
                  THEN tick[t].pc = "tradeCreated"
                  ELSE /\ out'[i].status \in Terminal
                       /\ tick[t].pc \in {"tradeUpdated", "oppUpdated"}
                       /\ tick'[t].pc = "done"]_vars
  /\ [](finished.outcome = "traded"
          => /\ finished.nTrade = 1
             /\ finished.nEvents = 3
             /\ Len(out) = 1
             /\ out[1].type = "trade"
             /\ out[1].status \in Terminal)

\* C38: for every trade exactly two trade events are broadcast with its id,
\* first one with status 'pending', then exactly one with a terminal status,
\* and that terminal status is the trade's final persisted status.
TradeEventsMatchPersistedStatus ==
  /\ TradeEventsPendingThenTerminal
  /\ [](finished.outcome = "traded"
          => /\ finished.trades # {}
             /\ \A tr \in finished.trades : tr.status = out[1].status)

\* C39: a record created through the storage service is found by a later
\* update by id: once updateTrade (resp. updateOpportunity) has returned to
\* the tick that created the record, a store holds the record with the patch
\* applied, whatever database connect and failure events came in between.
UpdateFindsCreatedRecord ==
  \A t \in Slots :
    /\ tick[t].pc = "tradeUpdated"
         => \E tr \in Held("trades", t) : tr.status = tick[t].upd.status
    /\ tick[t].pc = "oppUpdated"
         => \E o \in Held("opportunities", t) :
              /\ o.wasExecuted
              /\ o.executedTradeId = tick[t].trade.id

\* this step inserted a record into the database or changed one
DbWritten ==
  \E table \in {"trades", "opportunities"} : \E id \in DOMAIN db'[table] :
    \/ id \notin DOMAIN db[table]
    \/ db'[table][id] # db[table][id]

\* C40: the database-connected flag becomes true at most once, when the
\* initial connection test succeeds; once the test is over and the flag is
\* false no operation, healthCheck included, sets it back to true, no new
\* request is sent to the database and the database is written only by a
\* request sent before the flag was cleared.
DbFlagSetOnceNeverRestored ==
  /\ [][(isDbConnected' /\ ~isDbConnected)
          => (dbInit = "pending" /\ dbInit' = "done")]_vars
  /\ [][dbInit = "done" => dbInit' = "done"]_vars
  /\ [][(dbInit = "done" /\ ~isDbConnected)
          => /\ ~isDbConnected'
             /\ \A t \in Slots :
                  tick'[t].pc \in StorageOps => tick'[t].pc = tick[t].pc
             /\ DbWritten
                  => \E t \in Slots :
                       /\ tick[t].pc \in StorageOps
                       /\ tick'[t].pc = Continuation(tick[t].pc)]_vars

\* the health check answered true after a database error had cleared the
\* flag: the database holds a record from the time it was connected and the
\* memory store a record written since
HealthCheckAnsweredAfterFallback ==
  /\ ret = [op |-> "healthCheck", value |-> TRUE]
  /\ dbInit = "done"
  /\ ~isDbConnected
  /\ db # EmptyStore
  /\ memoryStorage # EmptyStore
====
